---- MODULE Spec2Model ----
(***************************************************************************)
(* MCPHost (meeting_mcp/core/mcp.py) and OrchestratorAgent                 *)
(* (meeting_mcp/agents/orchestrator_agent.py) as a state machine.          *)
(*                                                                         *)
(* State: the host's two dicts, `tools` and `sessions`, plus `last`, the   *)
(* record of the most recent call (its arguments, what it returned and     *)
(* which tool executions it started), and `endCalled`, the sessions on     *)
(* which end_session has been called so far; `calls`, the coroutines     *)
(* that are suspended in a tool's execute; `a2a`, an A2AMessage            *)
(* (meeting_mcp/protocols/a2a.py); `ui`, the browser sessions of the       *)
(* Streamlit client (meeting_mcp/ui/streamlit_agent_client.py).            *)
(*                                                                         *)
(* Python dicts keep insertion order, so a dict is a sequence of           *)
(* [k, v] entries with unique keys.                                        *)
(***************************************************************************)
EXTENDS FiniteSets, Integers, Sequences, TLC

VARIABLES tools, sessions, last, endCalled, calls, a2a, ui

vars == <<tools, sessions, last, endCalled, calls, a2a, ui>>

(***************************************************************************)
(* Bounds                                                                  *)
(***************************************************************************)
\* create_session is called at most this many times in a run
MaxSessions == 2

(***************************************************************************)
(* Python dict                                                             *)
(***************************************************************************)
Entry(k, v) == [k |-> k, v |-> v]

Keys(d) == {d[i].k : i \in 1..Len(d)}

Has(d, k) == \E i \in 1..Len(d) : d[i].k = k

Get(d, k) == d[CHOOSE i \in 1..Len(d) : d[i].k = k].v

\* d[k] = v: replaces the value in place, or appends a new entry
Put(d, k, v) ==
    IF Has(d, k)
    THEN [i \in 1..Len(d) |-> IF d[i].k = k THEN Entry(k, v) ELSE d[i]]
    ELSE Append(d, Entry(k, v))

KeyList(d) == [i \in 1..Len(d) |-> d[i].k]

(***************************************************************************)
(* Python values: a value is a record that carries its type in the field   *)
(* py                                                                      *)
(***************************************************************************)
PyNone == [py |-> "NoneType"]

PyStr(v) == [v |-> v, py |-> "str"]

PyInt(n) == [py |-> "int", n |-> n]

PyDict(d) == [d |-> d, py |-> "dict"]

\* bool(x), as `or` and `if` test it: None, "", 0 and {} are false, an
\* object of a class without __bool__ and __len__ is true
Truthy(x) ==
    CASE x.py = "NoneType" -> FALSE
      [] x.py = "str" -> x # PyStr("")
      [] x.py = "int" -> x.n # 0
      [] x.py = "dict" -> x.d # <<>>
      [] OTHER -> TRUE

\* `x or {}` on the parameters argument
OrEmptyDict(p) == IF Truthy(p) THEN p ELSE PyDict(<<>>)

(***************************************************************************)
(* Values                                                                  *)
(***************************************************************************)
\* Python's None where a session id is optional
None == -1

\* the ids str(uuid.uuid4()) returns, in the order they are issued
UUIDs == 1..MaxSessions

\* strings a caller may pass as a session id that uuid4 never returns
ForeignIds == {0}

\* a list passed as session_id: a value that cannot be a key of a dict
Unhashable == -3

\* agent ids passed to create_session by the callers in the repository
AgentIds == {"http-client"}

\* tool ids for which a tool object gets registered
RegToolIds == {"summarization", "notification"}

\* tool ids passed to execute_tool; each is unregistered until register_tool
\* is called for it
ToolIdInputs == RegToolIds

\* the parameters argument: None or a non-empty dict
Params == {PyNone, PyDict(<<Entry("action", PyStr("fetch"))>>)}

\* two tool objects can be registered under one tool id: a first one and one
\* that overwrites it
Versions == {1, 2}

\* MCPToolType.<member>.value of the tool class the repository has for a
\* tool id
ToolTypeOf(tool_id) ==
    CASE tool_id = "calendar" -> "calendar"
      [] tool_id = "transcript" -> "data_preprocessing"
      [] tool_id = "summarization" -> "summarization"
      [] tool_id = "jira" -> "jira"
      [] tool_id = "risk" -> "risk_detection"
      [] tool_id = "notification" -> "notification"

\* MCPTool objects; `name` tells two objects with the same tool_id apart
MCPTool(tool_id, version) ==
    [tool_id |-> tool_id, tool_type |-> ToolTypeOf(tool_id),
     name |-> version]

ToolObjects == {MCPTool(id, n) : id \in RegToolIds, n \in Versions}

\* the error result the host builds
ErrorResult(message) == [message |-> message, status |-> "error"]

\* what one run of a tool's execute does: return a result dict or raise an
\* Exception.  The result dicts are the base class's "Not implemented", a
\* success, and a dict with no status key.
ToolResults ==
    { ErrorResult("Not implemented"),
      [status |-> "success"],
      [events |-> "list"] }

ExceptionTexts == {"boom"}

ToolRuns ==
    {[kind |-> "return", value |-> r] : r \in ToolResults}
    \cup {[kind |-> "raise", text |-> m] : m \in ExceptionTexts}

\* str(e) of an exception
str(e) == e.text

\* no execute was awaited
NoRun == [kind |-> "none", text |-> "no tool"]

(***************************************************************************)
(* MCPHost                                                                 *)
(***************************************************************************)
\* register_tool that keeps the tool first registered under an id:
\* self.tools.setdefault(tool.tool_id, tool)
register_tool_keepsFirst(t, tool) ==
    IF Has(t, tool.tool_id) THEN t ELSE Put(t, tool.tool_id, tool)

\* MCPHost.register_tool: self.tools[tool.tool_id] = tool
register_tool(t, tool) == Put(t, tool.tool_id, tool)

\* an id generator that repeats the first id it issued
uuid4_repeats(s) == 1

\* str(uuid.uuid4()): an id not issued before
uuid4(s) == Len(s) + 1

\* create_session that hands back the agent's active session if it has one
create_session_reuses(s, agent_id) ==
    IF \E i \in 1..Len(s) : s[i].v.agent_id = agent_id /\ s[i].v.active
    THEN [sessions |-> s,
          ret |-> s[CHOOSE i \in 1..Len(s) :
                       s[i].v.agent_id = agent_id /\ s[i].v.active].k]
    ELSE LET session_id == uuid4(s)
         IN  [sessions |-> Put(s, session_id,
                               [agent_id |-> agent_id, active |-> TRUE,
                                context |-> <<>>]),
              ret |-> session_id]

\* MCPHost.create_session; created_at, a wall-clock string nothing reads,
\* is left out of the row
create_session(s, agent_id) ==
    LET session_id == uuid4(s)
    IN  [sessions |-> Put(s, session_id,
                          [agent_id |-> agent_id, active |-> TRUE,
                           context |-> <<>>]),
         ret |-> session_id]

\* end_session that flips the flag instead of clearing it
end_session_toggles(s, session_id) ==
    IF ~Has(s, session_id)
    THEN [sessions |-> s, ret |-> FALSE]
    ELSE [sessions |-> Put(s, session_id,
                           [Get(s, session_id) EXCEPT !.active = ~@]),
          ret |-> TRUE]

\* end_session that deletes the row: self.sessions.pop(session_id)
end_session_pops(s, session_id) ==
    IF ~Has(s, session_id)
    THEN [sessions |-> s, ret |-> FALSE]
    ELSE [sessions |-> SelectSeq(s, LAMBDA e : e.k # session_id),
          ret |-> TRUE]

\* end_session that reports success without clearing the flag
end_session_keepsActive(s, session_id) ==
    IF ~Has(s, session_id)
    THEN [sessions |-> s, ret |-> FALSE]
    ELSE [sessions |-> s, ret |-> TRUE]

\* MCPHost.end_session
end_session(s, session_id) ==
    IF ~Has(s, session_id)
    THEN [sessions |-> s, ret |-> FALSE]
    ELSE [sessions |-> Put(s, session_id,
                           [Get(s, session_id) EXCEPT !.active = FALSE]),
          ret |-> TRUE]

\* execute_tool that looks the tool up before it validates the session
execute_tool_toolFirst(t, s, session_id, tool_id, parameters) ==
    IF ~Has(t, tool_id)
    THEN [kind |-> "return", value |-> ErrorResult("Tool not found"),
          invoked |-> <<>>]
    ELSE IF ~Has(s, session_id)
    THEN [kind |-> "return", value |-> ErrorResult("Invalid session ID"),
          invoked |-> <<>>]
    ELSE IF ~Get(s, session_id).active
    THEN [kind |-> "return", value |-> ErrorResult("Session not active"),
          invoked |-> <<>>]
    ELSE [kind |-> "await",
          invoked |-> <<[tool |-> Get(t, tool_id),
                         params |-> OrEmptyDict(parameters),
                         session_id |-> session_id]>>]

\* execute_tool without the check of the active flag
execute_tool_noActiveCheck(t, s, session_id, tool_id, parameters) ==
    IF ~Has(s, session_id)
    THEN [kind |-> "return", value |-> ErrorResult("Invalid session ID"),
          invoked |-> <<>>]
    ELSE IF ~Has(t, tool_id)
    THEN [kind |-> "return", value |-> ErrorResult("Tool not found"),
          invoked |-> <<>>]
    ELSE [kind |-> "await",
          invoked |-> <<[tool |-> Get(t, tool_id),
                         params |-> OrEmptyDict(parameters),
                         session_id |-> session_id]>>]

\* execute_tool without the check of the tool id: self.tools[tool_id]
\* raises KeyError
execute_tool_noToolCheck(t, s, session_id, tool_id, parameters) ==
    IF ~Has(s, session_id)
    THEN [kind |-> "return", value |-> ErrorResult("Invalid session ID"),
          invoked |-> <<>>]
    ELSE IF ~Get(s, session_id).active
    THEN [kind |-> "return", value |-> ErrorResult("Session not active"),
          invoked |-> <<>>]
    ELSE IF ~Has(t, tool_id)
    THEN [kind |-> "raise", value |-> ErrorResult("KeyError"),
          text |-> "KeyError", invoked |-> <<>>]
    ELSE [kind |-> "await",
          invoked |-> <<[tool |-> Get(t, tool_id),
                         params |-> OrEmptyDict(parameters),
                         session_id |-> session_id]>>]

\* MCPHost.execute_tool up to its await (lines 58-67): the call is rejected
\* and returns, or the registered tool's execute is started with
\* `parameters or {}` and the call waits for it.  `session_id not in
\* self.sessions` hashes session_id, so it raises TypeError for a list.
execute_tool(t, s, session_id, tool_id, parameters) ==
    IF session_id = Unhashable
    THEN [kind |-> "raise", text |-> "unhashable type: 'list'",
          invoked |-> <<>>]
    ELSE IF ~Has(s, session_id)
    THEN [kind |-> "return", value |-> ErrorResult("Invalid session ID"),
          invoked |-> <<>>]
    ELSE IF ~Get(s, session_id).active
    THEN [kind |-> "return", value |-> ErrorResult("Session not active"),
          invoked |-> <<>>]
    ELSE IF ~Has(t, tool_id)
    THEN [kind |-> "return", value |-> ErrorResult("Tool not found"),
          invoked |-> <<>>]
    ELSE [kind |-> "await",
          invoked |-> <<[tool |-> Get(t, tool_id),
                         params |-> OrEmptyDict(parameters),
                         session_id |-> session_id]>>]

\* execute_tool without the try/except around tool.execute
execute_tool_result_noCatch(run) ==
    IF run.kind = "return"
    THEN [kind |-> "return", value |-> run.value]
    ELSE [kind |-> "raise", value |-> ErrorResult(str(run)),
          text |-> run.text]

\* MCPHost.execute_tool after its await (lines 67-71): what the tool
\* returned, or the error result made of the exception it raised
execute_tool_result(run) ==
    IF run.kind = "return"
    THEN [kind |-> "return", value |-> run.value]
    ELSE [kind |-> "return", value |-> ErrorResult(str(run))]

\* one entry of get_available_tools
ToolSummary(tool) ==
    [tool_id |-> tool.tool_id, name |-> tool.name,
     tool_type |-> tool.tool_type]

\* get_available_tools without the check of the active flag
get_available_tools_noActiveCheck(t, s, session_id) ==
    IF ~Has(s, session_id)
    THEN <<>>
    ELSE [i \in 1..Len(t) |-> ToolSummary(t[i].v)]

\* MCPHost.get_available_tools
get_available_tools(t, s, session_id) ==
    IF ~Has(s, session_id) \/ ~Get(s, session_id).active
    THEN <<>>
    ELSE [i \in 1..Len(t) |-> ToolSummary(t[i].v)]

(***************************************************************************)
(* Text: a Python str is the sequence of its characters                    *)
(***************************************************************************)
\* None passed where a str is expected
NoneText == <<"None">>

UpperCase == <<"A", "B", "C", "D", "E", "F", "G", "H", "I", "J", "K", "L", "M", "N", "O", "P", "Q", "R", "S", "T", "U", "V", "W", "X", "Y", "Z">>

LowerCase == <<"a", "b", "c", "d", "e", "f", "g", "h", "i", "j", "k", "l", "m", "n", "o", "p", "q", "r", "s", "t", "u", "v", "w", "x", "y", "z">>

\* str.lower() on one character
LowerChar(c) ==
    IF \E i \in 1..Len(UpperCase) : UpperCase[i] = c
    THEN LowerCase[CHOOSE i \in 1..Len(UpperCase) : UpperCase[i] = c]
    ELSE c

\* (text or "").lower()
lower(text) ==
    LET str0 == IF text = NoneText THEN <<>> ELSE text
    IN  [i \in 1..Len(str0) |-> LowerChar(str0[i])]

\* k in t, for strings
In(k, txt) ==
    \E i \in 0..(Len(txt) - Len(k)) : SubSeq(txt, i + 1, i + Len(k)) = k

\* the preprocess keywords without "transcript" and "transcripts"
KwPreprocess_noTranscript ==
    { <<"p", "r", "e", "p", "r", "o", "c", "e", "s", "s">>,
      <<"p", "r", "e", "-", "p", "r", "o", "c", "e", "s", "s", "i", "n", "g">>,
      <<"p", "r", "o", "c", "e", "s", "s">>,
      <<"c", "l", "e", "a", "n">> }

\* line 29 of detect_intent
KwPreprocess ==
    { <<"p", "r", "e", "p", "r", "o", "c", "e", "s", "s">>,
      <<"p", "r", "e", "-", "p", "r", "o", "c", "e", "s", "s", "i", "n", "g">>,
      <<"p", "r", "o", "c", "e", "s", "s">>,
      <<"t", "r", "a", "n", "s", "c", "r", "i", "p", "t">>,
      <<"t", "r", "a", "n", "s", "c", "r", "i", "p", "t", "s">>,
      <<"c", "l", "e", "a", "n">> }

KwSummar == <<"s", "u", "m", "m", "a", "r">>

KwSummary == <<"s", "u", "m", "m", "a", "r", "y">>

KwRisk == <<"r", "i", "s", "k">>

KwDetectRisk == <<"d", "e", "t", "e", "c", "t", " ", "r", "i", "s", "k">>

KwRisks == <<"r", "i", "s", "k", "s">>

KwCalendar ==
    { <<"c", "a", "l", "e", "n", "d", "a", "r">>,
      <<"e", "v", "e", "n", "t", "s">>,
      <<"f", "e", "t", "c", "h">> }

KwJira == <<"j", "i", "r", "a">>

KwTicket == <<"t", "i", "c", "k", "e", "t">>

KwIssue == <<"i", "s", "s", "u", "e">>

KwNotify == <<"n", "o", "t", "i", "f", "y">>

KwEmail == <<"e", "m", "a", "i", "l">>

\* the user messages of this specification: one routed to a registrable
\* tool, one routed to a tool that is never registered
MsgNotify == <<"N", "o", "t", "i", "f", "y", " ", "a", "l", "l">>

MsgFetch == <<"f", "e", "t", "c", "h">>

Messages == {MsgNotify, MsgFetch}

\* the words the texts given to detect_intent are made of: for each tag a
\* word holding one of its keywords, some in capitals, one that holds
\* "summar" but not "summary", and a word holding none
IntentWords ==
    { <<"P", "r", "e", "p", "r", "o", "c", "e", "s", "s">>,
      <<"t", "r", "a", "n", "s", "c", "r", "i", "p", "t">>,
      <<"s", "u", "m", "m", "a", "r", "y">>,
      <<"s", "u", "m", "m", "a", "r", "i", "s", "e">>,
      <<"r", "i", "s", "k", "s">>,
      <<"c", "a", "l", "e", "n", "d", "a", "r">>,
      <<"f", "e", "t", "c", "h">>,
      <<"j", "i", "r", "a">>,
      <<"i", "s", "s", "u", "e">>,
      <<"n", "o", "t", "i", "f", "y">>,
      <<"E", "M", "A", "I", "L">>,
      <<"h", "e", "l", "l", "o">> }

\* the longest text, in words
MaxWords == 2

\* the texts of at most n words, the words separated by one blank
RECURSIVE Phrases(_)
Phrases(n) ==
    IF n = 0 THEN {<<>>}
    ELSE LET shorter == Phrases(n - 1)
         IN  shorter \cup
             {IF p = <<>> THEN w ELSE p \o <<" ">> \o w :
                 p \in shorter, w \in IntentWords}

\* "please summarize the transcript and fetch my calendar"
MsgSummarizeTranscript ==
    <<"p", "l", "e", "a", "s", "e", " ", "s", "u", "m", "m", "a", "r", "i",
      "z", "e", " ", "t", "h", "e", " ", "t", "r", "a", "n", "s", "c", "r",
      "i", "p", "t", " ", "a", "n", "d", " ", "f", "e", "t", "c", "h", " ",
      "m", "y", " ", "c", "a", "l", "e", "n", "d", "a", "r">>

\* "please summarize and fetch my calendar"
MsgSummarizeCalendar ==
    <<"p", "l", "e", "a", "s", "e", " ", "s", "u", "m", "m", "a", "r", "i",
      "z", "e", " ", "a", "n", "d", " ", "f", "e", "t", "c", "h", " ", "m",
      "y", " ", "c", "a", "l", "e", "n", "d", "a", "r">>

\* the texts detect_intent is given: None, "", the phrases and two sentences
IntentTexts ==
    {NoneText} \cup Phrases(MaxWords)
        \cup {MsgSummarizeTranscript, MsgSummarizeCalendar}

(***************************************************************************)
(* OrchestratorAgent                                                       *)
(***************************************************************************)
\* OrchestratorAgent.agent_id
OrchestratorId == "orchestrator"

\* detect_intent that tests the calendar keywords before the summarize and
\* risk keywords
detect_intent_calendarFirst(text) ==
    LET txt == lower(text)
    IN  IF \E k \in KwPreprocess : In(k, txt) THEN "preprocess"
        ELSE IF \E k \in KwCalendar : In(k, txt) THEN "calendar"
        ELSE IF In(KwSummar, txt) \/ In(KwSummary, txt) THEN "summarize"
        ELSE IF In(KwRisk, txt) \/ In(KwDetectRisk, txt) \/ In(KwRisks, txt)
        THEN "risk"
        ELSE IF In(KwJira, txt) \/ In(KwTicket, txt) \/ In(KwIssue, txt)
        THEN "jira"
        ELSE IF In(KwNotify, txt) \/ In(KwEmail, txt) THEN "notify"
        ELSE "default"

\* OrchestratorAgent.detect_intent
detect_intent(text) ==
    LET txt == lower(text)
    IN  IF \E k \in KwPreprocess : In(k, txt) THEN "preprocess"
        ELSE IF In(KwSummar, txt) \/ In(KwSummary, txt) THEN "summarize"
        ELSE IF In(KwRisk, txt) \/ In(KwDetectRisk, txt) \/ In(KwRisks, txt)
        THEN "risk"
        ELSE IF \E k \in KwCalendar : In(k, txt) THEN "calendar"
        ELSE IF In(KwJira, txt) \/ In(KwTicket, txt) \/ In(KwIssue, txt)
        THEN "jira"
        ELSE IF In(KwNotify, txt) \/ In(KwEmail, txt) THEN "notify"
        ELSE "default"

\* detect_intent on each message of the specification, computed once
IntentOf == [m \in Messages |-> detect_intent(m)]

\* route_agents whose lookup has an empty default: mapping.get(intent, [])
route_agents_emptyDefault(intent) ==
    CASE intent = "calendar" -> <<"calendar">>
      [] intent = "preprocess" -> <<"transcript">>
      [] intent = "summarize" -> <<"summarization">>
      [] intent = "risk" -> <<"risk">>
      [] intent = "jira" -> <<"jira">>
      [] intent = "notify" -> <<"notification">>
      [] intent = "default" -> <<"summarization">>
      [] OTHER -> <<>>

\* OrchestratorAgent.route_agents: mapping.get(intent, ["summarization"])
route_agents(intent) ==
    CASE intent = "calendar" -> <<"calendar">>
      [] intent = "preprocess" -> <<"transcript">>
      [] intent = "summarize" -> <<"summarization">>
      [] intent = "risk" -> <<"risk">>
      [] intent = "jira" -> <<"jira">>
      [] intent = "notify" -> <<"notification">>
      [] intent = "default" -> <<"summarization">>
      [] OTHER -> <<"summarization">>

\* an entry that wraps every outcome in a fresh status
ToolEntry_wrapped(r) ==
    IF r.kind = "return"
    THEN [status |-> "success", result |-> r.value]
    ELSE ErrorResult(str(r))

\* the inner try/except of orchestrate around one execute_tool call: the
\* entry recorded for the tool id
ToolEntry(r) ==
    IF r.kind = "return" THEN r.value ELSE ErrorResult(str(r))

\* a finally block that ends the session whoever created it
Cleanup_always(s, created_session, session_id) ==
    end_session(s, session_id).sessions

\* a finally block that ends no session
Cleanup_never(s, created_session, session_id) == s

\* the finally block of orchestrate
Cleanup(s, created_session, session_id) ==
    IF created_session THEN end_session(s, session_id).sessions ELSE s

(***************************************************************************)
(* Coroutines.  The host runs on an asyncio event loop: a coroutine runs   *)
(* without interruption up to an await that suspends, and the only such    *)
(* await is the one inside a tool's execute (the repository's tools await  *)
(* loop.run_in_executor).  So a step is: a request runs up to that await   *)
(* or to its end, or a suspended execute completes and its caller runs on. *)
(* `calls` holds the suspended coroutines.                                 *)
(*                                                                         *)
(* A suspended orchestrate is the record of its locals: given, the         *)
(* session_id argument; session_id, the local after line 77; created,      *)
(* the flag created_session; i, the position of the for loop; results,     *)
(* aggregated["results"]; running, the positions whose execute is in       *)
(* progress; invoked and ran, the executions started so far and, per       *)
(* position, what the awaited execute did (NoRun if the call was           *)
(* rejected).                                                              *)
(***************************************************************************)
\* the coroutines that can be suspended at once
CallSlots == {1, 2}

\* a slot with no coroutine
Idle == [op |-> "idle"]

\* a loop that records no entry for a call that execute_tool rejected or
\* in which it raised
RECURSIVE Resume_dropsRejected(_, _, _)
Resume_dropsRejected(t, s, c) ==
    IF c.i > Len(c.tool_ids)
    THEN [sessions |-> Cleanup(s, c.created, c.session_id),
          call |-> [c EXCEPT !.pc = "done"]]
    ELSE LET tid == c.tool_ids[c.i]
             r == execute_tool(t, s, c.session_id, tid,
                               OrEmptyDict(c.params))
         IN  IF r.kind # "await"
             THEN Resume_dropsRejected(t, s,
                      [c EXCEPT !.ran = Append(@, NoRun),
                                !.i = @ + 1])
             ELSE [sessions |-> s,
                   call |-> [c EXCEPT !.pc = "await",
                                      !.running = @ \cup {c.i},
                                      !.invoked = @ \o r.invoked]]

\* orchestrate from the head of its for loop, at position c.i of tool_ids,
\* up to the next execute_tool call that suspends in a tool or, if there is
\* none, through the finally block to the return.  A call that execute_tool
\* rejects returns at once and the loop goes on.
RECURSIVE Resume(_, _, _)
Resume(t, s, c) ==
    IF c.i > Len(c.tool_ids)
    THEN [sessions |-> Cleanup(s, c.created, c.session_id),
          call |-> [c EXCEPT !.pc = "done"]]
    ELSE LET tid == c.tool_ids[c.i]
             r == execute_tool(t, s, c.session_id, tid,
                               OrEmptyDict(c.params))
         IN  IF r.kind # "await"
             THEN Resume(t, s,
                      [c EXCEPT !.results = Put(@, tid, ToolEntry(r)),
                                !.ran = Append(@, NoRun),
                                !.i = @ + 1])
             ELSE [sessions |-> s,
                   call |-> [c EXCEPT !.pc = "await",
                                      !.running = @ \cup {c.i},
                                      !.invoked = @ \o r.invoked]]

\* orchestrate that falls back to a session of its own when the caller's
\* session id is not in the table
orchestrate_begin_fallback(t, s, user_message, params, session_id) ==
    LET intent == IntentOf[user_message]
        tool_ids == route_agents(intent)
        created_session == (session_id = None) \/ ~Has(s, session_id)
        made == create_session(s, OrchestratorId)
        sid == IF created_session THEN made.ret ELSE session_id
        s1 == IF created_session THEN made.sessions ELSE s
    IN  Resume(t, s1,
               [op |-> "orchestrate", user_message |-> user_message,
                given |-> session_id, session_id |-> sid,
                created |-> created_session, intent |-> intent,
                tool_ids |-> tool_ids, params |-> params,
                i |-> 1, results |-> <<>>, running |-> {},
                invoked |-> <<>>, ran |-> <<>>, pc |-> "loop"])

\* OrchestratorAgent.orchestrate from its first line up to the first await
\* that suspends
orchestrate_begin(t, s, user_message, params, session_id) ==
    LET intent == IntentOf[user_message]
        tool_ids == route_agents(intent)
        created_session == (session_id = None)
        made == create_session(s, OrchestratorId)
        sid == IF created_session THEN made.ret ELSE session_id
        s1 == IF created_session THEN made.sessions ELSE s
    IN  Resume(t, s1,
               [op |-> "orchestrate", user_message |-> user_message,
                given |-> session_id, session_id |-> sid,
                created |-> created_session, intent |-> intent,
                tool_ids |-> tool_ids, params |-> params,
                i |-> 1, results |-> <<>>, running |-> {},
                invoked |-> <<>>, ran |-> <<>>, pc |-> "loop"])

\* orchestrate when the execute it awaits at position i has done `run`:
\* execute_tool returns, the entry is recorded and the loop goes on
orchestrate_resume(t, s, c, i, run) ==
    Resume(t, s,
           [c EXCEPT !.results = Put(@, c.tool_ids[i],
                                     ToolEntry(execute_tool_result(run))),
                     !.ran = Append(@, run),
                     !.running = @ \ {i},
                     !.i = i + 1,
                     !.pc = "loop"])

\* what a caller of orchestrate has when the call c returns: the arguments
\* it passed, the aggregated object, and what the call did on the way
Returned(c) ==
    [op |-> "orchestrate", user_message |-> c.user_message,
     params |-> c.params, session_id |-> c.given, kind |-> "return",
     value |-> [intent |-> c.intent, results |-> c.results],
     invoked |-> c.invoked, tool_ids |-> c.tool_ids,
     created |-> IF c.created THEN c.session_id ELSE None,
     ran |-> c.ran]

\* sessions ended by a step from s to s1
EndedBy(s, s1) ==
    {s1[j].k : j \in {j \in 1..Len(s1) :
        ~s1[j].v.active /\ (j > Len(s) \/ s[j].v.active)}}

\* the free slot a coroutine that suspends is put in
FreeSlot(k) ==
    /\ calls[k] = Idle
    /\ \A j \in DOMAIN calls : j < k => calls[j] # Idle

\* a client awaits execute_tool: the call is rejected and returns at once,
\* or it suspends in the tool's execute
StartExecuteTool(session_id, tool_id, parameters) ==
    /\ \E r \in {execute_tool(tools, sessions, session_id, tool_id,
                              parameters)} :
           IF r.kind # "await"
           THEN /\ last' = [op |-> "execute_tool",
                            session_id |-> session_id, tool_id |-> tool_id,
                            parameters |-> parameters, kind |-> r.kind,
                            value |-> r.value, invoked |-> r.invoked,
                            run |-> NoRun]
                /\ UNCHANGED calls
           ELSE /\ \E k \in DOMAIN calls :
                      /\ FreeSlot(k)
                      /\ calls' = [calls EXCEPT ![k] =
                                      [op |-> "execute_tool",
                                       session_id |-> session_id,
                                       tool_id |-> tool_id,
                                       parameters |-> parameters,
                                       invoked |-> r.invoked]]
                /\ last' = [op |-> "execute_tool_suspended",
                            session_id |-> session_id, tool_id |-> tool_id,
                            parameters |-> parameters,
                            invoked |-> r.invoked]
    /\ UNCHANGED <<tools, sessions, endCalled, a2a, ui>>

\* what `last` says of an orchestrate that is suspended
Suspended(c) ==
    [op |-> "orchestrate_suspended", session_id |-> c.given,
     invoked |-> c.invoked,
     created |-> IF c.created THEN c.session_id ELSE None]

\* a client awaits orchestrate
StartOrchestrate(user_message, params, session_id) ==
    /\ session_id = None => uuid4(sessions) \in UUIDs
    /\ \E r \in {orchestrate_begin(tools, sessions, user_message, params,
                                   session_id)} :
           /\ sessions' = r.sessions
           /\ endCalled' = endCalled \cup EndedBy(sessions, r.sessions)
           /\ IF r.call.pc = "done"
              THEN /\ last' = Returned(r.call)
                   /\ UNCHANGED calls
              ELSE /\ \E k \in DOMAIN calls :
                         /\ FreeSlot(k)
                         /\ calls' = [calls EXCEPT ![k] = r.call]
                   /\ last' = Suspended(r.call)
    /\ UNCHANGED <<tools, a2a, ui>>

\* execute_tool that stores the tool's result in the session's context
ToolDone_recordsContext(k, run) ==
    /\ calls[k] # Idle
    /\ IF calls[k].op = "execute_tool"
       THEN \E r \in {execute_tool_result(run)} :
            /\ calls' = [calls EXCEPT ![k] = Idle]
            /\ last' = [op |-> "execute_tool",
                        session_id |-> calls[k].session_id,
                        tool_id |-> calls[k].tool_id,
                        parameters |-> calls[k].parameters,
                        kind |-> r.kind, value |-> r.value,
                        invoked |-> calls[k].invoked, run |-> run]
            /\ sessions' =
                  Put(sessions, calls[k].session_id,
                      [Get(sessions, calls[k].session_id) EXCEPT
                          !.context = Put(@, calls[k].tool_id, r.value)])
            /\ UNCHANGED endCalled
       ELSE \E i \in calls[k].running :
              \E r \in {orchestrate_resume(tools, sessions, calls[k], i,
                                           run)} :
                /\ sessions' = r.sessions
                /\ endCalled' = endCalled \cup EndedBy(sessions, r.sessions)
                /\ IF r.call.pc = "done"
                   THEN /\ calls' = [calls EXCEPT ![k] = Idle]
                        /\ last' = Returned(r.call)
                   ELSE /\ calls' = [calls EXCEPT ![k] = r.call]
                        /\ last' = Suspended(r.call)
    /\ UNCHANGED <<tools, a2a, ui>>

\* the execute that the coroutine of slot k is suspended in does `run`, it
\* returns or raises, and the coroutine runs on: execute_tool returns to
\* its caller (lines 68-71), orchestrate records the entry and goes on with
\* its loop
ToolDone(k, run) ==
    /\ calls[k] # Idle
    /\ IF calls[k].op = "execute_tool"
       THEN \E r \in {execute_tool_result(run)} :
            /\ calls' = [calls EXCEPT ![k] = Idle]
            /\ last' = [op |-> "execute_tool",
                        session_id |-> calls[k].session_id,
                        tool_id |-> calls[k].tool_id,
                        parameters |-> calls[k].parameters,
                        kind |-> r.kind, value |-> r.value,
                        invoked |-> calls[k].invoked, run |-> run]
            /\ UNCHANGED <<sessions, endCalled>>
       ELSE \E i \in calls[k].running :
              \E r \in {orchestrate_resume(tools, sessions, calls[k], i,
                                           run)} :
                /\ sessions' = r.sessions
                /\ endCalled' = endCalled \cup EndedBy(sessions, r.sessions)
                /\ IF r.call.pc = "done"
                   THEN /\ calls' = [calls EXCEPT ![k] = Idle]
                        /\ last' = Returned(r.call)
                   ELSE /\ calls' = [calls EXCEPT ![k] = r.call]
                        /\ last' = Suspended(r.call)
    /\ UNCHANGED <<tools, a2a, ui>>

(***************************************************************************)
(* Specification: a host, the clients that call its methods and an         *)
(* orchestrator on it                                                      *)
(***************************************************************************)
\* ids a caller can name: the ones issued so far and the foreign ones
CallerIds == Keys(sessions) \cup ForeignIds

\* one coroutine can be suspended at a time
HostSlots == {1}

\* MCPHost(), no coroutine started
Init ==
    /\ tools = <<>>
    /\ sessions = <<>>
    /\ last = [op |-> "init"]
    /\ endCalled = {}
    /\ calls = [k \in HostSlots |-> Idle]
    /\ a2a = None
    /\ ui = <<>>

\* a registry that is frozen once a session exists: a session sees only the
\* tools registered before it was created
RegisterTool_frozenBySessions ==
    \E tool \in ToolObjects :
        /\ tools' = IF sessions = <<>> THEN register_tool(tools, tool)
                    ELSE tools
        /\ last' = [op |-> "register_tool", tool |-> tool]
        /\ UNCHANGED <<sessions, endCalled, calls, a2a, ui>>

\* MCPHost.register_tool called by the wiring code or a client
RegisterTool ==
    \E tool \in ToolObjects :
        /\ tools' = register_tool(tools, tool)
        /\ last' = [op |-> "register_tool", tool |-> tool]
        /\ UNCHANGED <<sessions, endCalled, calls, a2a, ui>>

CreateSession ==
    \E agent_id \in AgentIds :
        /\ uuid4(sessions) \in UUIDs
        /\ LET r == create_session(sessions, agent_id)
           IN  /\ sessions' = r.sessions
               /\ last' = [op |-> "create_session", agent_id |-> agent_id,
                           ret |-> r.ret]
        /\ UNCHANGED <<tools, endCalled, calls, a2a, ui>>

EndSession ==
    \E session_id \in CallerIds :
        /\ LET r == end_session(sessions, session_id)
           IN  /\ sessions' = r.sessions
               /\ last' = [op |-> "end_session", session_id |-> session_id,
                           ret |-> r.ret]
        /\ endCalled' = endCalled \cup ({session_id} \cap Keys(sessions))
        /\ UNCHANGED <<tools, calls, a2a, ui>>

\* MCPHost.execute_tool awaited by a client
ExecuteTool ==
    \E session_id \in CallerIds, tool_id \in ToolIdInputs,
       parameters \in Params :
        StartExecuteTool(session_id, tool_id, parameters)

GetAvailableTools ==
    \E session_id \in CallerIds :
        /\ last' = [op |-> "get_available_tools", session_id |-> session_id,
                    ret |-> get_available_tools(tools, sessions, session_id)]
        /\ UNCHANGED <<tools, sessions, endCalled, calls, a2a, ui>>

\* OrchestratorAgent.orchestrate awaited by a client, with no params
Orchestrate ==
    \E user_message \in Messages, session_id \in CallerIds \cup {None} :
        StartOrchestrate(user_message, PyNone, session_id)

\* a tool's execute finishes
Completion == \E k \in DOMAIN calls, run \in ToolRuns : ToolDone(k, run)

Next ==
    \/ RegisterTool
    \/ CreateSession
    \/ EndSession
    \/ ExecuteTool
    \/ GetAvailableTools
    \/ Orchestrate
    \/ Completion

Spec == Init /\ [][Next]_vars

(***************************************************************************)
(* The classifier and the routing table on their own                       *)
(***************************************************************************)
\* tags that are not keys of route_agents' mapping
OtherIntents == {"unknown", "Calendar", ""}

\* a fresh host and orchestrator, and a text about to be classified
IntentInit ==
    /\ tools = <<>>
    /\ sessions = <<>>
    /\ endCalled = {}
    /\ calls = <<>>
    /\ a2a = None
    /\ ui = <<>>
    /\ \E text \in IntentTexts : last = [op |-> "input", text |-> text]

\* intent = self.detect_intent(user_message)
DetectIntent ==
    /\ last.op = "input"
    /\ last' = [op |-> "detect_intent", text |-> last.text,
                ret |-> detect_intent(last.text)]
    /\ UNCHANGED <<tools, sessions, endCalled, calls, a2a, ui>>

\* self.route_agents(intent), on the tag just detected or on another string
RouteAgents ==
    /\ last.op = "detect_intent"
    /\ \E intent \in {last.ret} \cup OtherIntents :
           last' = [op |-> "route_agents", intent |-> intent,
                    ret |-> route_agents(intent)]
    /\ UNCHANGED <<tools, sessions, endCalled, calls, a2a, ui>>

IntentNext ==
    \/ DetectIntent
    \/ RouteAgents

SpecIntent == IntentInit /\ [][IntentNext]_vars

(***************************************************************************)
(* The server process: the host that create_system() wired, and requests  *)
(* that arrive while others are suspended                                  *)
(***************************************************************************)
\* the ids of the tools create_system registers, in its order
SystemToolIds ==
    <<"calendar", "transcript", "summarization", "jira", "risk",
      "notification">>

\* the registry after register_tool for the tool ids of ids from position i
\* on
RECURSIVE RegisterAll(_, _, _)
RegisterAll(t, ids, i) ==
    IF i > Len(ids) THEN t
    ELSE RegisterAll(register_tool(t, MCPTool(ids[i], 1)), ids, i + 1)

\* what this specification lets a tool's execute do: return a success or
\* raise
AsyncRuns ==
    { [kind |-> "return", value |-> [status |-> "success"]],
      [kind |-> "raise", text |-> "boom"] }

\* the tool id and the message of the requests of this specification
AsyncToolIds == {"summarization"}

AsyncMessages == {MsgNotify}

\* the server process after create_system()
AsyncInit ==
    /\ tools = RegisterAll(<<>>, SystemToolIds, 1)
    /\ sessions = <<>>
    /\ last = [op |-> "init"]
    /\ endCalled = {}
    /\ calls = [k \in CallSlots |-> Idle]
    /\ a2a = None
    /\ ui = <<>>

\* a request calls create_session
AsyncCreateSession ==
    \E agent_id \in AgentIds :
        /\ uuid4(sessions) \in UUIDs
        /\ sessions' = create_session(sessions, agent_id).sessions
        /\ last' = [op |-> "create_session"]
        /\ UNCHANGED <<tools, endCalled, calls, a2a, ui>>

\* a request calls end_session
AsyncEndSession ==
    \E session_id \in CallerIds :
        /\ sessions' = end_session(sessions, session_id).sessions
        /\ endCalled' = endCalled \cup ({session_id} \cap Keys(sessions))
        /\ last' = [op |-> "end_session", session_id |-> session_id]
        /\ UNCHANGED <<tools, calls, a2a, ui>>

\* a request awaits execute_tool
AsyncExecuteTool ==
    \E session_id \in CallerIds, tool_id \in AsyncToolIds :
        StartExecuteTool(session_id, tool_id, PyNone)

\* a request awaits orchestrate
AsyncOrchestrate ==
    \E user_message \in AsyncMessages,
       session_id \in CallerIds \cup {None} :
        StartOrchestrate(user_message, PyNone, session_id)

\* the execute that the coroutine of slot k waits for finishes
AsyncToolDone(k) == \E run \in AsyncRuns : ToolDone(k, run)

AsyncCompletion == \E k \in CallSlots : AsyncToolDone(k)

AsyncNext ==
    \/ AsyncCreateSession
    \/ AsyncEndSession
    \/ AsyncExecuteTool
    \/ AsyncOrchestrate
    \/ AsyncCompletion

SpecAsync == AsyncInit /\ [][AsyncNext]_vars

\* every execute that was started returns or raises in the end
SpecAsyncFair ==
    AsyncInit /\ [][AsyncNext]_vars
        /\ \A k \in CallSlots : WF_vars(AsyncToolDone(k))

(***************************************************************************)
(* An orchestrator on a host that has two of the routed tools registered,  *)
(* called with any value as session_id, a list included                    *)
(***************************************************************************)
\* a host with the tools of RegToolIds registered, no coroutine started
RouteInit ==
    /\ tools = RegisterAll(<<>>, <<"summarization", "notification">>, 1)
    /\ sessions = <<>>
    /\ last = [op |-> "init"]
    /\ endCalled = {}
    /\ calls = [k \in CallSlots |-> Idle]
    /\ a2a = None
    /\ ui = <<>>

\* a client awaits orchestrate with no session id, with one a caller can
\* name, or with a list
RouteOrchestrate ==
    \E user_message \in Messages,
       session_id \in CallerIds \cup {None, Unhashable} :
        StartOrchestrate(user_message, PyNone, session_id)

RouteNext ==
    \/ AsyncCreateSession
    \/ AsyncEndSession
    \/ RouteOrchestrate
    \/ AsyncCompletion

SpecRoute == RouteInit /\ [][RouteNext]_vars

(***************************************************************************)
(* A2AMessage (meeting_mcp/protocols/a2a.py)                               *)
(***************************************************************************)
\* the longest list of parts an A2AMessage is constructed from
MaxParts == 2

\* the members of PartType, by name
PartTypeNames ==
    {"TEXT", "JSON", "MEETING_ID", "SUMMARY", "TASK", "ACTION_ITEM",
     "PROGRESS", "RESULT", "RISK"}

\* PartType.<name>
PartType(name) == [py |-> "PartType", name |-> name]

\* PartType.<name>.value
PartTypeValue(name) ==
    CASE name = "TEXT" -> "text/plain"
      [] name = "JSON" -> "application/json"
      [] name = "MEETING_ID" -> "meeting_id"
      [] name = "SUMMARY" -> "summary"
      [] name = "TASK" -> "task"
      [] name = "ACTION_ITEM" -> "action_item"
      [] name = "PROGRESS" -> "progress"
      [] name = "RESULT" -> "result"
      [] name = "RISK" -> "risk"

\* MessagePart(part_id, content_type, content)
MessagePart(part_id, content_type, content) ==
    [py |-> "MessagePart", part_id |-> part_id,
     content_type |-> content_type, content |-> content]

\* str(uuid.uuid4()), the n-th one issued: a string equal to no other
UuidStr(n) == [py |-> "str", uuid |-> n]

\* p.get(key) on a dict
dict_get(p, key) == IF Has(p.d, key) THEN Get(p.d, key) ELSE PyNone

Digits == <<"0", "1", "2", "3", "4", "5", "6", "7", "8", "9">>

\* str(p) of a str, of an int of one digit, of None
str_of(p) ==
    CASE p.py = "str" -> p
      [] p.py = "int" -> PyStr(Digits[p.n + 1])
      [] p.py = "NoneType" -> PyStr("None")

\* PartType(ctype): the member whose value is ctype; ValueError if there is
\* none
PartTypeCall(ctype) ==
    IF ctype.py = "str"
          /\ \E n \in PartTypeNames : PyStr(PartTypeValue(n)) = ctype
    THEN [kind |-> "return",
          value |-> PartType(CHOOSE n \in PartTypeNames :
                                 PyStr(PartTypeValue(n)) = ctype)]
    ELSE [kind |-> "raise", text |-> "ValueError"]

\* a content type that keeps a tag it cannot convert
ContentType_keepsTag(p) ==
    LET ctype == IF Has(p.d, "content_type")
                 THEN dict_get(p, "content_type")
                 ELSE dict_get(p, "type")
    IN  IF ctype.py = "PartType" THEN ctype
        ELSE IF PartTypeCall(ctype).kind = "return"
        THEN PartTypeCall(ctype).value
        ELSE ctype

\* the content type of a dict part: lines 96-105 of __post_init__
ContentType(p) ==
    LET ctype == IF Has(p.d, "content_type")
                 THEN dict_get(p, "content_type")
                 ELSE dict_get(p, "type")
    IN  IF ctype.py = "PartType" THEN ctype
        ELSE IF PartTypeCall(ctype).kind = "return"
        THEN PartTypeCall(ctype).value
        ELSE PartType("TEXT")

RECURSIVE post_init(_, _, _, _)

\* a normalization that leaves out what is neither a MessagePart nor a dict
post_init_dropsOthers(parts, i, normalized, issued) ==
    IF i > Len(parts)
    THEN [parts |-> normalized, issued |-> issued]
    ELSE LET p == parts[i]
         IN  IF p.py = "MessagePart"
             THEN post_init(parts, i + 1, Append(normalized, p), issued)
             ELSE IF p.py = "dict"
             THEN LET given == Truthy(dict_get(p, "part_id"))
                      pid == IF given THEN dict_get(p, "part_id")
                             ELSE UuidStr(issued + 1)
                  IN  post_init(parts, i + 1,
                          Append(normalized,
                                 MessagePart(pid, ContentType(p),
                                             dict_get(p, "content"))),
                          IF given THEN issued ELSE issued + 1)
             ELSE post_init(parts, i + 1, normalized, issued)

\* a normalization that builds a new part, with a new id, from a
\* MessagePart as well
post_init_rewraps(parts, i, normalized, issued) ==
    IF i > Len(parts)
    THEN [parts |-> normalized, issued |-> issued]
    ELSE LET p == parts[i]
         IN  IF p.py = "MessagePart"
             THEN post_init(parts, i + 1,
                      Append(normalized,
                             MessagePart(UuidStr(issued + 1),
                                         p.content_type, p.content)),
                      issued + 1)
             ELSE IF p.py = "dict"
             THEN LET given == Truthy(dict_get(p, "part_id"))
                      pid == IF given THEN dict_get(p, "part_id")
                             ELSE UuidStr(issued + 1)
                  IN  post_init(parts, i + 1,
                          Append(normalized,
                                 MessagePart(pid, ContentType(p),
                                             dict_get(p, "content"))),
                          IF given THEN issued ELSE issued + 1)
             ELSE post_init(parts, i + 1,
                      Append(normalized,
                             MessagePart(UuidStr(issued + 1),
                                         PartType("TEXT"), str_of(p))),
                      issued + 1)

\* A2AMessage.__post_init__ from position i of parts on; `issued` counts
\* the uuids taken so far
post_init(parts, i, normalized, issued) ==
    IF i > Len(parts)
    THEN [parts |-> normalized, issued |-> issued]
    ELSE LET p == parts[i]
         IN  IF p.py = "MessagePart"
             THEN post_init(parts, i + 1, Append(normalized, p), issued)
             ELSE IF p.py = "dict"
             THEN LET given == Truthy(dict_get(p, "part_id"))
                      pid == IF given THEN dict_get(p, "part_id")
                             ELSE UuidStr(issued + 1)
                  IN  post_init(parts, i + 1,
                          Append(normalized,
                                 MessagePart(pid, ContentType(p),
                                             dict_get(p, "content"))),
                          IF given THEN issued ELSE issued + 1)
             ELSE post_init(parts, i + 1,
                      Append(normalized,
                             MessagePart(UuidStr(issued + 1),
                                         PartType("TEXT"), str_of(p))),
                      issued + 1)

\* A2AMessage(message_id, role, parts)
A2AMessage(parts, issued) == post_init(parts, 1, <<>>, issued)

\* A2AMessage.add_text_part
add_text_part(m, text) ==
    LET pid == UuidStr(m.issued + 1)
    IN  [a2a |-> [parts |-> Append(m.parts,
                                   MessagePart(pid, PartType("TEXT"), text)),
                  issued |-> m.issued + 1],
         ret |-> pid]

\* A2AMessage.add_json_part
add_json_part(m, data) ==
    LET pid == UuidStr(m.issued + 1)
    IN  [a2a |-> [parts |-> Append(m.parts,
                                   MessagePart(pid, PartType("JSON"), data)),
                  issued |-> m.issued + 1],
         ret |-> pid]

\* the entries the lists of parts are made of: MessagePart objects, dict
\* descriptors with and without an id and a tag, a string, an int
PartInputs ==
    { PyDict(<<Entry("type", PyStr("task")),
               Entry("content", PyDict(<<Entry("x", PyInt(1))>>))>>),
      PyStr("plain text"),
      MessagePart(PyStr("p1"), PartType("JSON"),
                  PyDict(<<Entry("k", PyInt(1))>>)),
      MessagePart(PyStr("p2"), PartType("TEXT"), PyStr("hi")),
      PyDict(<<Entry("part_id", PyStr("p1")),
               Entry("content_type", PartType("SUMMARY")),
               Entry("content", PyStr("s"))>>),
      PyDict(<<Entry("content_type", PyNone),
               Entry("type", PyStr("task"))>>),
      PyDict(<<Entry("type", PyStr("bogus"))>>),
      PyDict(<<Entry("part_id", PyStr("")),
               Entry("type", PyStr("TASK"))>>),
      PyDict(<<>>),
      PyInt(7),
      PyDict(<<Entry("part_id", PyDict(<<>>)),
               Entry("type", PyStr("task"))>>),
      PyDict(<<Entry("part_id", PyNone),
               Entry("type", PyStr("text/plain")),
               Entry("content", PyStr("a"))>>) }

\* [{"type": "task", "content": {"x": 1}}, "plain text", MessagePart(...)]
ExampleParts ==
    << PyDict(<<Entry("type", PyStr("task")),
                Entry("content", PyDict(<<Entry("x", PyInt(1))>>))>>),
       PyStr("plain text"),
       MessagePart(PyStr("p1"), PartType("JSON"),
                   PyDict(<<Entry("k", PyInt(1))>>)) >>

\* the lists of parts of at most n entries
RECURSIVE PartLists(_)
PartLists(n) ==
    IF n = 0 THEN {<<>>}
    ELSE LET shorter == PartLists(n - 1)
         IN  shorter \cup
             {Append(l, p) : l \in {l \in shorter : Len(l) = n - 1},
                             p \in PartInputs}

\* an A2AMessage just constructed
A2AInit ==
    /\ tools = <<>>
    /\ sessions = <<>>
    /\ endCalled = {}
    /\ calls = <<>>
    /\ ui = <<>>
    /\ \E parts \in PartLists(MaxParts) \cup {ExampleParts} :
          /\ a2a = A2AMessage(parts, 0)
          /\ last = [op |-> "A2AMessage", parts |-> parts]

AddTextPart ==
    \E text \in {PyStr("hello")} :
        /\ Len(a2a.parts) <= MaxParts
        /\ a2a' = add_text_part(a2a, text).a2a
        /\ last' = [op |-> "add_text_part", text |-> text,
                    ret |-> add_text_part(a2a, text).ret]
        /\ UNCHANGED <<tools, sessions, endCalled, calls, ui>>

AddJsonPart ==
    \E data \in {PyDict(<<>>)} :
        /\ Len(a2a.parts) <= MaxParts
        /\ a2a' = add_json_part(a2a, data).a2a
        /\ last' = [op |-> "add_json_part", data |-> data,
                    ret |-> add_json_part(a2a, data).ret]
        /\ UNCHANGED <<tools, sessions, endCalled, calls, ui>>

\* A2AMessage(m.message_id, m.role, m.parts): a message constructed from
\* the parts of a message
Renormalize ==
    /\ a2a' = A2AMessage(a2a.parts, a2a.issued)
    /\ last' = [op |-> "A2AMessage", parts |-> a2a.parts]
    /\ UNCHANGED <<tools, sessions, endCalled, calls, ui>>

A2ANext ==
    \/ AddTextPart
    \/ AddJsonPart
    \/ Renormalize

SpecA2A == A2AInit /\ [][A2ANext]_vars

(***************************************************************************)
(* The HTTP endpoints of meeting_mcp/server/mcp_api.py.  Each request is  *)
(* a coroutine on the server's event loop; one that awaits a tool is       *)
(* suspended in `calls` until the tool's execute finishes.                 *)
(***************************************************************************)
\* the tools the except branch of the bootstrap registers, in its order
FallbackToolIds ==
    <<"calendar", "transcript", "summarization", "jira", "risk">>

\* params.pop(key)
dict_pop(params, key) == PyDict(SelectSeq(params.d, LAMBDA e : e.k # key))

\* params[key] = value
dict_set(params, key, value) == PyDict(Put(params.d, key, value))

\* the alias that call_transcript, call_jira and call_risk allow: if the
\* dict has the key alias and not the key name, the value moves to name
Rename(params, alias, name) ==
    IF Has(params.d, alias) /\ ~Has(params.d, name)
    THEN dict_set(dict_pop(params, alias), name, Get(params.d, alias))
    ELSE params

\* call_summarize: the value of processed_transcripts is also given under
\* processed
CopyKey(params, from, name) ==
    IF Has(params.d, from) /\ ~Has(params.d, name)
    THEN dict_set(params, name, Get(params.d, from))
    ELSE params

\* req.dict(exclude_none=True) of the requests of the tool endpoints; a
\* list value is written as the string of its items
TranscriptBodies ==
    { PyDict(<<Entry("transcripts", PyStr("a b"))>>),
      PyDict(<<Entry("data", PyStr("a b"))>>) }

SummarizeBodies ==
    { PyDict(<<Entry("processed_transcripts", PyStr("a b"))>>),
      PyDict(<<>>) }

JiraBodies == { PyDict(<<Entry("action_items", PyStr("t"))>>) }

RiskBodies == { PyDict(<<Entry("meeting_id", PyStr("m1"))>>) }

\* the tool endpoints: the tool each one runs and the parameters it makes
\* of the request body
ToolEndpoints ==
    { [tool_id |-> "transcript", params |-> Rename(b, "data", "transcripts"),
       endpoint |-> "call_transcript", body |-> b]
          : b \in TranscriptBodies }
    \cup
    { [tool_id |-> "summarization",
       params |-> CopyKey(b, "processed_transcripts", "processed"),
       endpoint |-> "call_summarize", body |-> b]
          : b \in SummarizeBodies }
    \cup
    { [tool_id |-> "jira", params |-> Rename(b, "items", "action_items"),
       endpoint |-> "call_jira", body |-> b]
          : b \in JiraBodies }
    \cup
    { [tool_id |-> "risk", params |-> Rename(b, "meeting", "meeting_id"),
       endpoint |-> "call_risk", body |-> b]
          : b \in RiskBodies }

\* call_transcript, call_summarize, call_jira, call_risk up to the await:
\* a session of agent "http-client" is created and execute_tool is awaited
\* in it
call_tool_begin(t, s, tool_id, params) ==
    LET made == create_session(s, "http-client")
        r == execute_tool(t, made.sessions, made.ret, tool_id, params)
    IN  [sessions |-> made.sessions, session_id |-> made.ret, result |-> r]

\* ... and after it: the session is ended and the result returned
call_tool_end(s, session_id, result) ==
    [sessions |-> end_session(s, session_id).sessions,
     response |-> result.value]

\* mcp_host.execute_intent(...): MCPHost has no such attribute
execute_intent(t, s, session_id, prompt, params) ==
    [kind |-> "raise", text |-> "AttributeError"]

\* call_orchestrate: POST /mcp/orchestrate, up to the first await that
\* suspends.  A request with a session id tries execute_intent and, on any
\* Exception, goes on to the call that a request without one makes:
\* orchestrator.orchestrate(prompt, params).
call_orchestrate(t, s, prompt, params, session_id) ==
    LET r == IF session_id # None
             THEN execute_intent(t, s, session_id, prompt,
                                 OrEmptyDict(params))
             ELSE [kind |-> "none", text |-> "not called"]
    IN  IF r.kind = "return"
        THEN [sessions |-> s,
              call |-> [pc |-> "done", response |-> r.value,
                        invoked |-> <<>>, created |-> FALSE,
                        session_id |-> session_id]]
        ELSE orchestrate_begin(t, s, prompt, OrEmptyDict(params), None)

\* what call_orchestrate returns when the call c it awaited is done
Response(c) ==
    IF "response" \in DOMAIN c THEN c.response
    ELSE [intent |-> c.intent, results |-> c.results]

\* end_session_endpoint: POST /session/{session_id}/end
end_session_endpoint(s, session_id) ==
    LET r == end_session(s, session_id)
    IN  [sessions |-> r.sessions, ended |-> r.ret,
         response |-> [ended |-> TRUE]]

\* create_session_endpoint: POST /session/create
create_session_endpoint(s, agent_id) ==
    LET r == create_session(s, agent_id)
    IN  [sessions |-> r.sessions, response |-> [session_id |-> r.ret]]

\* the server process after the import of mcp_api: the runtime of
\* create_system() or, if that raised, the manual wiring
ApiInit ==
    /\ tools \in { RegisterAll(<<>>, SystemToolIds, 1),
                   RegisterAll(<<>>, FallbackToolIds, 1) }
    /\ sessions = <<>>
    /\ last = [op |-> "init"]
    /\ endCalled = {}
    /\ calls = [k \in CallSlots |-> Idle]
    /\ a2a = None
    /\ ui = <<>>

PostSessionCreate ==
    \E agent_id \in AgentIds :
        /\ uuid4(sessions) \in UUIDs
        /\ \E r \in {create_session_endpoint(sessions, agent_id)} :
               /\ sessions' = r.sessions
               /\ last' = [op |-> "create_session_endpoint",
                           agent_id |-> agent_id, response |-> r.response]
        /\ UNCHANGED <<tools, endCalled, calls, a2a, ui>>

PostSessionEnd ==
    \E session_id \in CallerIds :
        /\ \E r \in {end_session_endpoint(sessions, session_id)} :
               /\ sessions' = r.sessions
               /\ last' = [op |-> "end_session_endpoint",
                           session_id |-> session_id, ended |-> r.ended,
                           response |-> r.response]
        /\ endCalled' = endCalled \cup ({session_id} \cap Keys(sessions))
        /\ UNCHANGED <<tools, calls, a2a, ui>>

\* the response of call_orchestrate and what the request did on the way
OrchestrateResponse(req, c) ==
    [op |-> "call_orchestrate", prompt |-> req.prompt,
     params |-> req.params, session_id |-> req.session_id,
     response |-> Response(c), invoked |-> c.invoked,
     created |-> IF c.created THEN c.session_id ELSE None,
     usable |-> req.usable]

\* POST /mcp/orchestrate
PostOrchestrate ==
    \E prompt \in Messages, params \in Params,
       session_id \in CallerIds \cup {None} :
        /\ uuid4(sessions) \in UUIDs
        /\ \E r \in {call_orchestrate(tools, sessions, prompt, params,
                                       session_id)},
              req \in {[prompt |-> prompt, params |-> params,
                        session_id |-> session_id,
                        usable |-> /\ Has(sessions, session_id)
                                   /\ Get(sessions, session_id).active]} :
               /\ sessions' = r.sessions
               /\ endCalled' = endCalled \cup EndedBy(sessions, r.sessions)
               /\ IF r.call.pc = "done"
                  THEN /\ last' = OrchestrateResponse(req, r.call)
                       /\ UNCHANGED calls
                  ELSE /\ \E k \in DOMAIN calls :
                             /\ FreeSlot(k)
                             /\ calls' = [calls EXCEPT ![k] =
                                             [op |-> "call_orchestrate",
                                              req |-> req, call |-> r.call]]
                       /\ last' = [op |-> "request_suspended"]
        /\ UNCHANGED <<tools, a2a, ui>>

\* POST /mcp/transcript, /mcp/summarize, /mcp/jira, /mcp/risk
PostTool ==
    \E e \in ToolEndpoints :
        /\ uuid4(sessions) \in UUIDs
        /\ \E r \in {call_tool_begin(tools, sessions, e.tool_id,
                                      e.params)} :
               IF r.result.kind # "await"
               THEN \E done \in {call_tool_end(r.sessions, r.session_id,
                                               r.result)} :
                       /\ sessions' = done.sessions
                       /\ endCalled' = endCalled \cup {r.session_id}
                       /\ last' = [op |-> e.endpoint, body |-> e.body,
                                   session_id |-> r.session_id,
                                   invoked |-> <<>>,
                                   response |-> done.response]
                       /\ UNCHANGED calls
               ELSE /\ sessions' = r.sessions
                    /\ \E k \in DOMAIN calls :
                          /\ FreeSlot(k)
                          /\ calls' = [calls EXCEPT ![k] =
                                          [op |-> e.endpoint,
                                           body |-> e.body,
                                           session_id |-> r.session_id,
                                           invoked |-> r.result.invoked]]
                    /\ last' = [op |-> "request_suspended"]
                    /\ UNCHANGED endCalled
        /\ UNCHANGED <<tools, a2a, ui>>

\* the tool a request is suspended in finishes and the request runs on, to
\* its response or to the next tool
ApiToolDone ==
    \E k \in CallSlots, run \in AsyncRuns :
        /\ calls[k] # Idle
        /\ IF calls[k].op = "call_orchestrate"
           THEN \E i \in calls[k].call.running :
                  \E r \in {orchestrate_resume(tools, sessions,
                                               calls[k].call, i, run)} :
                    /\ sessions' = r.sessions
                    /\ endCalled' = endCalled
                                       \cup EndedBy(sessions, r.sessions)
                    /\ IF r.call.pc = "done"
                       THEN /\ calls' = [calls EXCEPT ![k] = Idle]
                            /\ last' = OrchestrateResponse(calls[k].req,
                                                           r.call)
                       ELSE /\ calls' = [calls EXCEPT ![k].call = r.call]
                            /\ last' = [op |-> "request_suspended"]
           ELSE \E done \in {call_tool_end(sessions, calls[k].session_id,
                                           execute_tool_result(run))} :
                    /\ sessions' = done.sessions
                    /\ endCalled' = endCalled \cup {calls[k].session_id}
                    /\ calls' = [calls EXCEPT ![k] = Idle]
                    /\ last' = [op |-> calls[k].op, body |-> calls[k].body,
                                session_id |-> calls[k].session_id,
                                invoked |-> calls[k].invoked,
                                response |-> done.response]
        /\ UNCHANGED <<tools, a2a, ui>>

ApiNext ==
    \/ PostSessionCreate
    \/ PostSessionEnd
    \/ PostOrchestrate
    \/ PostTool
    \/ ApiToolDone

SpecApi == ApiInit /\ [][ApiNext]_vars

(***************************************************************************)
(* The Streamlit client (meeting_mcp/ui/streamlit_agent_client.py) in      *)
(* in-process mode.  create_runtime is cached, so every browser session    *)
(* uses the same MCPHost; each has a st.session_state of its own and runs  *)
(* the script in a thread of its own, so the statements of two runs        *)
(* interleave.  A run that calls run_orchestrate blocks in asyncio.run     *)
(* while the routed tool executes; `calls` holds, per browser session, the *)
(* orchestrate call its run is blocked in.                                 *)
(***************************************************************************)
\* the browser sessions
Browsers == {1, 2}

\* the agent id of the sessions the client creates
StreamlitUser == "streamlit-user"

\* "mcp_session_id" is not a key of st.session_state
Absent == -2

\* a browser session in which no script run is under way
NoRunUnderWay(mcp_session_id) ==
    [pc |-> "idle", mcp_session_id |-> mcp_session_id, todo |-> <<>>]

\* bool(sid) for a session id or None
TruthySid(sid) == sid # None /\ sid # Absent

\* st.session_state.get("mcp_session_id")
session_state_get(mcp_session_id) ==
    IF mcp_session_id = Absent THEN None ELSE mcp_session_id

\* the params of the run_orchestrate calls: {} of the free-form call and
\* the dict of a per-meeting call
UiParams ==
    { PyDict(<<>>), PyDict(<<Entry("meeting_title", PyStr("standup"))>>) }

\* run_orchestrate in in-process mode, up to the await that blocks the
\* script thread: asyncio.run(orchestrator.orchestrate(prompt,
\* params or {}, session_id=session_id))
run_orchestrate(t, s, prompt, params, session_id) ==
    orchestrate_begin(t, s, prompt, OrEmptyDict(params), session_id)

\* the host that create_runtime() returns, no browser connected yet
UiInit ==
    /\ tools = RegisterAll(<<>>, SystemToolIds, 1)
    /\ sessions = <<>>
    /\ last = [op |-> "init"]
    /\ endCalled = {}
    /\ calls = [b \in Browsers |-> Idle]
    /\ a2a = None
    /\ ui = [b \in Browsers |-> NoRunUnderWay(Absent)]

\* a script run starts (page load, rerun after a click): line 92, and for a
\* session_state without the key the snapshot of line 95
RunScript ==
    \E b \in Browsers :
        /\ ui[b].pc = "idle"
        /\ ui' = [ui EXCEPT ![b] =
                     IF ui[b].mcp_session_id = Absent
                     THEN [@ EXCEPT !.pc = "ending",
                                    !.todo = KeyList(sessions)]
                     ELSE [@ EXCEPT !.pc = "sidebar"]]
        /\ last' = [op |-> "run", browser |-> b]
        /\ UNCHANGED <<tools, sessions, endCalled, calls, a2a>>

\* one iteration of the loop of lines 95-101: meta is the row itself, so
\* the flag is read as it is now
EndPrevious ==
    \E b \in Browsers :
        /\ ui[b].pc = "ending"
        /\ ui[b].todo # <<>>
        /\ LET sid == Head(ui[b].todo)
               meta == Get(sessions, sid)
               ends == meta.agent_id = StreamlitUser /\ meta.active
           IN  /\ sessions' = IF ends THEN end_session(sessions, sid).sessions
                              ELSE sessions
               /\ endCalled' = IF ends THEN endCalled \cup {sid}
                               ELSE endCalled
        /\ ui' = [ui EXCEPT ![b].todo = Tail(@)]
        /\ last' = [op |-> "end_previous", browser |-> b]
        /\ UNCHANGED <<tools, calls, a2a>>

\* line 106: the persistent session of this browser session
CreatePersistent ==
    \E b \in Browsers :
        /\ ui[b].pc = "ending"
        /\ ui[b].todo = <<>>
        /\ uuid4(sessions) \in UUIDs
        /\ \E r \in {create_session(sessions, StreamlitUser)} :
               /\ sessions' = r.sessions
               /\ ui' = [ui EXCEPT ![b] =
                            [pc |-> "sidebar", mcp_session_id |-> r.ret,
                             todo |-> <<>>]]
        /\ last' = [op |-> "create_persistent", browser |-> b]
        /\ UNCHANGED <<tools, endCalled, calls, a2a>>

\* lines 240-256: the button that is shown, "End MCP Session" for a
\* session id and "Start MCP Session" for None, pressed or not; the run
\* goes on to the chat input
Sidebar ==
    \E b \in Browsers, pressed \in BOOLEAN :
        /\ ui[b].pc = "sidebar"
        /\ LET sid == ui[b].mcp_session_id
           IN  IF ~pressed
               THEN /\ ui' = [ui EXCEPT ![b].pc = "chat"]
                    /\ UNCHANGED <<sessions, endCalled>>
               ELSE IF TruthySid(sid)
               THEN /\ sessions' = end_session(sessions, sid).sessions
                    /\ endCalled' = endCalled \cup {sid}
                    /\ ui' = [ui EXCEPT ![b].pc = "chat",
                                        ![b].mcp_session_id = Absent]
               ELSE /\ uuid4(sessions) \in UUIDs
                    /\ \E r \in {create_session(sessions, StreamlitUser)} :
                           /\ sessions' = r.sessions
                           /\ ui' = [ui EXCEPT ![b].pc = "chat",
                                               ![b].mcp_session_id = r.ret]
                    /\ UNCHANGED endCalled
        /\ last' = [op |-> "sidebar", browser |-> b, pressed |-> pressed]
        /\ UNCHANGED <<tools, calls, a2a>>

\* a run_orchestrate call of the chat block (lines 264-874): with
\* session_id=st.session_state.get("mcp_session_id"), as the chat commands
\* and the free-form call of line 816 make it, or without session_id, as
\* the buttons of render_calendar_result and render_summary_result make it
\* (renderers.py 319, 423, 473, 488, 522, 548).  The call returns at once
\* or the script thread blocks while the routed tool executes.
RunOrchestrate ==
    \E b \in Browsers, prompt \in Messages, params \in UiParams,
       keyword \in BOOLEAN :
        /\ ui[b].pc = "chat"
        /\ LET session_id == IF keyword
                             THEN session_state_get(ui[b].mcp_session_id)
                             ELSE None
           IN  /\ session_id = None => uuid4(sessions) \in UUIDs
               /\ \E r \in {run_orchestrate(tools, sessions, prompt, params,
                                            session_id)} :
                      /\ sessions' = r.sessions
                      /\ endCalled' = endCalled
                                         \cup EndedBy(sessions, r.sessions)
                      /\ IF r.call.pc = "done"
                         THEN UNCHANGED <<calls, ui>>
                         ELSE /\ calls' = [calls EXCEPT ![b] = r.call]
                              /\ ui' = [ui EXCEPT ![b].pc = "orchestrating"]
                      /\ last' = IF r.call.pc = "done"
                                 THEN Returned(r.call)
                                 ELSE Suspended(r.call)
        /\ UNCHANGED <<tools, a2a>>

\* the tool that a run's orchestrate call waits for returns or raises: the
\* call records the entry, ends the session it created and returns to the
\* script
UiToolDone ==
    \E b \in Browsers, run \in AsyncRuns :
        /\ ui[b].pc = "orchestrating"
        /\ \E i \in calls[b].running :
             \E r \in {orchestrate_resume(tools, sessions, calls[b], i,
                                          run)} :
               /\ sessions' = r.sessions
               /\ endCalled' = endCalled \cup EndedBy(sessions, r.sessions)
               /\ IF r.call.pc = "done"
                  THEN /\ calls' = [calls EXCEPT ![b] = Idle]
                       /\ ui' = [ui EXCEPT ![b].pc = "chat"]
                  ELSE /\ calls' = [calls EXCEPT ![b] = r.call]
                       /\ UNCHANGED ui
               /\ last' = IF r.call.pc = "done"
                          THEN Returned(r.call)
                          ELSE Suspended(r.call)
        /\ UNCHANGED <<tools, a2a>>

\* the script run ends
EndRun ==
    \E b \in Browsers :
        /\ ui[b].pc = "chat"
        /\ ui' = [ui EXCEPT ![b].pc = "idle"]
        /\ last' = [op |-> "end_run", browser |-> b]
        /\ UNCHANGED <<tools, sessions, endCalled, calls, a2a>>

\* the page is reloaded: Streamlit starts a browser session with an empty
\* st.session_state
Reload ==
    \E b \in Browsers :
        /\ ui[b].pc = "idle"
        /\ ui[b].mcp_session_id # Absent
        /\ ui' = [ui EXCEPT ![b] = NoRunUnderWay(Absent)]
        /\ last' = [op |-> "reload", browser |-> b]
        /\ UNCHANGED <<tools, sessions, endCalled, calls, a2a>>

UiNext ==
    \/ RunScript
    \/ EndPrevious
    \/ CreatePersistent
    \/ Sidebar
    \/ RunOrchestrate
    \/ UiToolDone
    \/ EndRun
    \/ Reload

SpecUi == UiInit /\ [][UiNext]_vars

(***************************************************************************)
(* Properties                                                              *)
(***************************************************************************)
SessionError(s, session_id) ==
    IF ~Has(s, session_id) THEN ErrorResult("Invalid session ID")
    ELSE ErrorResult("Session not active")

Usable(s, session_id) == Has(s, session_id) /\ Get(s, session_id).active

\* C1: execute_tool validates in the order session known, session active,
\* tool registered: an unknown session id gives "Invalid session ID" and an
\* ended one "Session not active" whatever the tool id; "Tool not found" for
\* an unregistered tool id is given only in a known, active session; and a
\* call that passes the three checks has a known, active session and a
\* registered tool.
C1_ValidationOrder ==
    /\ (last.op = "execute_tool" /\ last.invoked = <<>>) =>
          /\ ~Has(sessions, last.session_id) =>
                last.value = ErrorResult("Invalid session ID")
          /\ (Has(sessions, last.session_id)
                /\ ~Get(sessions, last.session_id).active) =>
                last.value = ErrorResult("Session not active")
          /\ (Usable(sessions, last.session_id)
                /\ ~Has(tools, last.tool_id)) =>
                last.value = ErrorResult("Tool not found")
          /\ last.value = ErrorResult("Tool not found") =>
                Usable(sessions, last.session_id)
    /\ last.op = "execute_tool_suspended" =>
          Usable(sessions, last.session_id) /\ Has(tools, last.tool_id)

\* an ended session and an unregistered tool id: the session error wins
C1_Witness ==
    /\ last.op = "execute_tool"
    /\ Has(sessions, last.session_id)
    /\ ~Get(sessions, last.session_id).active
    /\ ~Has(tools, last.tool_id)
    /\ last.value = ErrorResult("Session not active")

\* C2: once end_session has been called on a session, every execute_tool
\* call made later on its id, for any tool id and parameters, is rejected at
\* once with the error "Session not active" and starts no tool.
C2_EndedSessionRejected ==
    /\ (last.op = "execute_tool" /\ last.invoked = <<>>
          /\ last.session_id \in endCalled) =>
          /\ last.kind = "return"
          /\ last.value = ErrorResult("Session not active")
    /\ last.op = "execute_tool_suspended" =>
          last.session_id \notin endCalled

\* a registered tool is asked for in a session ended before another session
\* was created
C2_Witness ==
    /\ last.op = "execute_tool"
    /\ last.invoked = <<>>
    /\ last.session_id \in endCalled
    /\ Has(tools, last.tool_id)
    /\ \E i \in 1..Len(sessions) :
          sessions[i].k > last.session_id /\ sessions[i].v.active
    /\ last.value = ErrorResult("Session not active")

\* C3: a session whose active flag is false keeps its row and the false flag
\* through every step.
C3_ActiveMonotone ==
    [][\A i \in 1..Len(sessions) :
          ~sessions[i].v.active =>
              /\ Has(sessions', sessions[i].k)
              /\ ~Get(sessions', sessions[i].k).active]_vars

\* a session is created, by create_session or by orchestrate, while an
\* ended one is in the table
C3_Witness ==
    /\ last.op \in {"create_session", "orchestrate"}
    /\ Len(sessions) = 2
    /\ ~sessions[1].v.active
    /\ sessions[1].v.agent_id = "http-client"

\* C4: a tool's execute is started only by a call whose session is, at
\* that moment, in the table with active = TRUE and whose tool id is
\* registered, and then it is the registered tool object that is started,
\* once; a call that returns without starting a tool is one of the rejected
\* cases.  The same holds of each execution that orchestrate starts.
C4_InvokeOnlyIfValid ==
    /\ last.op = "execute_tool_suspended" =>
          /\ Usable(sessions, last.session_id)
          /\ Has(tools, last.tool_id)
          /\ Len(last.invoked) = 1
          /\ last.invoked[1].tool = Get(tools, last.tool_id)
          /\ last.invoked[1].session_id = last.session_id
    /\ (last.op = "execute_tool" /\ last.invoked = <<>>) =>
          ~(Usable(sessions, last.session_id) /\ Has(tools, last.tool_id))
    /\ last.op = "orchestrate_suspended" =>
          LET call == last.invoked[Len(last.invoked)]
          IN  /\ Has(tools, call.tool.tool_id)
              /\ call.tool = Get(tools, call.tool.tool_id)
              /\ Usable(sessions, call.session_id)
              /\ call.session_id = IF last.session_id = None
                                   THEN last.created
                                   ELSE last.session_id

\* a tool has been started in an active session while another session is
\* ended
C4_Witness ==
    /\ last.op = "execute_tool_suspended"
    /\ Len(last.invoked) = 1
    /\ \E i \in 1..Len(sessions) : ~sessions[i].v.active

\* C5: when the tool's execute raises, execute_tool returns the error
\* result carrying the exception's text, and the step in which it returns
\* leaves tools and sessions as they were.
C5_ToolExceptionCaught ==
    [][(last'.op = "execute_tool" /\ last'.run.kind = "raise") =>
          /\ last'.kind = "return"
          /\ last'.value = ErrorResult(str(last'.run))
          /\ tools' = tools
          /\ sessions' = sessions]_vars

\* a registered tool raised in an active session
C5_Witness ==
    /\ last.op = "execute_tool"
    /\ last.run.kind = "raise"
    /\ Len(last.invoked) = 1
    /\ Usable(sessions, last.session_id)
    /\ last.value = ErrorResult("boom")

\* C6 as stated: every unregistered tool id gives "Tool not found".
C6_Original ==
    (last.op = "execute_tool" /\ ~Has(tools, last.tool_id)) =>
        /\ last.kind = "return"
        /\ last.value = ErrorResult("Tool not found")

\* C6: for an unregistered tool id execute_tool never raises; it returns
\* "Tool not found" when the session is known and active, and the session's
\* error otherwise.
C6_ToolNotFound ==
    (last.op = "execute_tool" /\ ~Has(tools, last.tool_id)) =>
        /\ last.kind = "return"
        /\ last.invoked = <<>>
        /\ last.value = IF Usable(sessions, last.session_id)
                        THEN ErrorResult("Tool not found")
                        ELSE SessionError(sessions, last.session_id)

\* an unregistered tool id in an active session, with another tool registered
C6_Witness ==
    /\ last.op = "execute_tool"
    /\ ~Has(tools, last.tool_id)
    /\ tools # <<>>
    /\ Usable(sessions, last.session_id)
    /\ last.value = ErrorResult("Tool not found")

\* a step in which a call starts: no suspended coroutine moves
CallStarts == \A k \in DOMAIN calls : calls[k] = Idle \/ calls'[k] = calls[k]

\* C7: orchestrate without a session id creates one session when it starts,
\* a row that was not in the table, keeps it active while it waits for a
\* tool and leaves it ended when it returns, whatever the routed tool did,
\* and it changes no other row; orchestrate with a caller's session id
\* creates none and no step of it changes the session table.
C7_SessionOwnership ==
    [][last'.op \in {"orchestrate", "orchestrate_suspended"} =>
          IF last'.session_id = None
          THEN /\ last'.created # None
               /\ CallStarts => ~Has(sessions, last'.created)
               /\ Keys(sessions') = Keys(sessions) \cup {last'.created}
               /\ Get(sessions', last'.created).active
                     = (last'.op = "orchestrate_suspended")
               /\ \A i \in 1..Len(sessions) :
                     sessions[i].k # last'.created =>
                         sessions'[i] = sessions[i]
          ELSE /\ last'.created = None
               /\ sessions' = sessions]_vars

\* orchestrate created a session, the routed tool raised, the session is
\* ended
C7_Witness ==
    /\ last.op = "orchestrate"
    /\ last.session_id = None
    /\ last.ran = <<[kind |-> "raise", text |-> "boom"]>>
    /\ Has(sessions, last.created)
    /\ ~Get(sessions, last.created).active

\* an orchestrate call has returned in the caller's session, still active
C7_WitnessReuse ==
    /\ last.op = "orchestrate"
    /\ last.session_id # None
    /\ Usable(sessions, last.session_id)
    /\ Len(last.invoked) = 1

C9_BadSessionIsErrorResult ==
    [][(/\ last'.op \in {"orchestrate", "orchestrate_suspended"}
        /\ CallStarts
        /\ last'.session_id # None
        /\ ~Usable(sessions, last'.session_id)) =>
          /\ last'.op = "orchestrate"
          /\ last'.kind = "return"
          /\ KeyList(last'.value.results) = last'.tool_ids
          /\ \A i \in 1..Len(last'.value.results) :
                last'.value.results[i].v
                    = SessionError(sessions, last'.session_id)
          /\ last'.invoked = <<>>
          /\ last'.created = None
          /\ sessions' = sessions]_vars

\* orchestrate was given an unknown id while the routed tool is registered
C9_WitnessUnknown ==
    /\ last.op = "orchestrate"
    /\ last.session_id \in ForeignIds
    /\ Has(tools, last.tool_ids[1])
    /\ last.value.results[1].v = ErrorResult("Invalid session ID")

\* C10 as stated: every entry of results has a status field.
C10_Original ==
    last.op = "orchestrate" =>
        /\ last.kind = "return"
        /\ \A i \in 1..Len(last.value.results) :
              "status" \in DOMAIN last.value.results[i].v

\* C10: orchestrate returns {intent, results} with an entry for every
\* routed tool id; an entry made by the host (a rejection or a caught
\* exception) has status "error" and a message, and the entry of a tool that
\* returned is the returned value unchanged, with a status field exactly
\* when the tool's result has one.
C10_WellFormedResult ==
    last.op = "orchestrate" =>
        /\ last.kind = "return"
        /\ DOMAIN last.value = {"intent", "results"}
        /\ Len(last.value.results) = Len(last.tool_ids)
        /\ \A i \in 1..Len(last.value.results) :
              LET e == last.value.results[i].v
              IN  IF last.ran[i].kind = "return"
                  THEN e = last.ran[i].value
                  ELSE /\ DOMAIN e = {"status", "message"}
                       /\ e.status = "error"

\* a routed tool returned a dict without status and that is its entry
C10_Witness ==
    /\ last.op = "orchestrate"
    /\ Len(last.invoked) = 1
    /\ last.value.results[1].v = [events |-> "list"]


\* C11: end_session on an id that is not in the table returns FALSE and
\* changes nothing; on an id in the table it returns TRUE, leaves that row
\* with active = FALSE and every other row as it was; and it is idempotent:
\* called again on the state it left, it returns the same and leaves the
\* same state.
C11_EndSessionIdempotent ==
    [][last'.op = "end_session" =>
          LET id == last'.session_id
              again == end_session(sessions', id)
          IN  /\ tools' = tools
              /\ IF ~Has(sessions, id)
                 THEN /\ last'.ret = FALSE
                      /\ sessions' = sessions
                 ELSE /\ last'.ret = TRUE
                      /\ Has(sessions', id)
                      /\ Get(sessions', id)
                            = [Get(sessions, id) EXCEPT !.active = FALSE]
                      /\ Len(sessions') = Len(sessions)
                      /\ \A i \in 1..Len(sessions) :
                            sessions[i].k # id => sessions'[i] = sessions[i]
              /\ again.ret = last'.ret
              /\ again.sessions = sessions']_vars

\* end_session returns TRUE on the session that orchestrate created and
\* ended: the second end_session on that id
C11_Witness ==
    /\ last.op = "end_session"
    /\ last.ret = TRUE
    /\ Has(sessions, last.session_id)
    /\ Get(sessions, last.session_id).agent_id = OrchestratorId
    /\ ~Get(sessions, last.session_id).active

\* C12: no step removes a session row: every id in the table stays in it,
\* so the table never shrinks, and a session that end_session was called on
\* is still in the table, with active = FALSE.
C12_RowsNeverRemoved ==
    [][/\ Keys(sessions) \subseteq Keys(sessions')
       /\ Len(sessions') >= Len(sessions)
       /\ \A id \in endCalled' :
             Has(sessions', id) /\ ~Get(sessions', id).active]_vars

\* every session of a full table has been ended and none has gone
C12_Witness ==
    /\ Len(sessions) = MaxSessions
    /\ endCalled = Keys(sessions)
    /\ \A i \in 1..Len(sessions) : ~sessions[i].v.active
    /\ last.op = "end_session"

\* C13: no step of execute_tool, the one up to its await and the one in
\* which it returns, changes the session table, flags and contexts
\* included, or the tool registry, whatever its outcome.
C13_ExecuteToolReadOnly ==
    [][last'.op \in {"execute_tool", "execute_tool_suspended"} =>
          /\ sessions' = sessions
          /\ tools' = tools]_vars

\* a tool ran and returned its result in a session that is still active
\* with an empty context
C13_Witness ==
    /\ last.op = "execute_tool"
    /\ Len(last.invoked) = 1
    /\ last.run.kind = "return"
    /\ last.value = [status |-> "success"]
    /\ Usable(sessions, last.session_id)
    /\ Get(sessions, last.session_id).context = <<>>

\* C14: create_session returns an id that was not in the table and appends
\* one row under it, with the given agent_id, active = TRUE and an empty
\* context; the rows already there and the tools are unchanged.
C14_CreateSessionFresh ==
    [][last'.op = "create_session" =>
          /\ ~Has(sessions, last'.ret)
          /\ sessions' = Append(sessions,
                Entry(last'.ret, [agent_id |-> last'.agent_id,
                                  active |-> TRUE, context |-> <<>>]))
          /\ tools' = tools]_vars

\* a second session is created for an agent whose first one is still active
C14_Witness ==
    /\ last.op = "create_session"
    /\ Len(sessions) = 2
    /\ sessions[1].v.active
    /\ sessions[1].v.agent_id = last.agent_id
    /\ sessions[2].k = last.ret
    /\ sessions[2].v.active

\* C15: register_tool leaves exactly one entry under the tool's id, the
\* tool just registered, also when the id was taken; the entries under
\* other ids and the session table are unchanged.
C15_RegisterOverwrites ==
    [][last'.op = "register_tool" =>
          LET id == last'.tool.tool_id
          IN  /\ Cardinality({i \in 1..Len(tools') : tools'[i].k = id}) = 1
              /\ Get(tools', id) = last'.tool
              /\ Keys(tools') = Keys(tools) \cup {id}
              /\ \A k \in Keys(tools) \ {id} : Get(tools', k) = Get(tools, k)
              /\ sessions' = sessions]_vars

\* the tool registered last took the place of the first entry of the
\* registry: its id was registered before
C15_Witness ==
    /\ last.op = "register_tool"
    /\ Len(tools) = 2
    /\ tools[1].v = last.tool
    /\ last.tool.name = 2

\* C16: get_available_tools returns the empty list for a session id that is
\* not in the table or whose session is ended; for an active session it
\* returns one summary per registered tool id, that of the registered tool;
\* and it changes neither table.
C16_AvailableTools ==
    [][last'.op = "get_available_tools" =>
          /\ IF Usable(sessions, last'.session_id)
             THEN /\ Len(last'.ret) = Cardinality(Keys(tools))
                  /\ \A k \in Keys(tools) :
                        \E i \in 1..Len(last'.ret) :
                            last'.ret[i] = ToolSummary(Get(tools, k))
             ELSE last'.ret = <<>>
          /\ tools' = tools
          /\ sessions' = sessions]_vars

\* an ended session is given the empty list while tools are registered
C16_Witness ==
    /\ last.op = "get_available_tools"
    /\ Has(sessions, last.session_id)
    /\ ~Get(sessions, last.session_id).active
    /\ tools # <<>>
    /\ last.ret = <<>>

\* C17: the registry is the host's, not the session's.  A tool registered,
\* or registered over another, while a session is open is the one that the
\* next execute_tool for its id starts in that session; and the list that
\* get_available_tools gives one active session is the list it gives every
\* active session in that state.
C17_RegistrationGlobal ==
    [][/\ (/\ last.op = "register_tool"
           /\ \/ last'.op = "execute_tool_suspended"
              \/ last'.op = "execute_tool" /\ last'.invoked = <<>>
           /\ last'.tool_id = last.tool.tool_id
           /\ Usable(sessions, last'.session_id)) =>
              /\ last'.op = "execute_tool_suspended"
              /\ Len(last'.invoked) = 1
              /\ last'.invoked[1].tool = last.tool
       /\ (/\ last'.op = "get_available_tools"
           /\ Usable(sessions', last'.session_id)) =>
              \A id \in Keys(sessions') :
                  Usable(sessions', id) =>
                      get_available_tools(tools', sessions', id) = last'.ret
      ]_vars

\* a tool has just been registered over another while two sessions are
\* open, both active
C17_Witness ==
    /\ last.op = "register_tool"
    /\ Len(tools) = 2
    /\ tools[1].v = last.tool
    /\ Len(sessions) = 2
    /\ \A i \in 1..Len(sessions) : sessions[i].v.active


\* the tags in the order of their priority, and the keywords of each
Priority ==
    <<"preprocess", "summarize", "risk", "calendar", "jira", "notify">>

KeywordsOf(tag) ==
    CASE tag = "preprocess" -> KwPreprocess
      [] tag = "summarize" -> {KwSummar, KwSummary}
      [] tag = "risk" -> {KwRisk, KwDetectRisk, KwRisks}
      [] tag = "calendar" -> KwCalendar
      [] tag = "jira" -> {KwJira, KwTicket, KwIssue}
      [] tag = "notify" -> {KwNotify, KwEmail}

\* C18: detect_intent returns the first tag, in the order preprocess,
\* summarize, risk, calendar, jira, notify, one of whose keywords occurs in
\* the lower-cased text, and "default" when no keyword occurs; it returns
\* "default" for the empty text and for None.
C18_FirstMatch ==
    last.op = "detect_intent" =>
        LET txt == lower(last.text)
            hits == {i \in 1..Len(Priority) :
                        \E k \in KeywordsOf(Priority[i]) : In(k, txt)}
        IN  /\ last.ret = IF hits = {} THEN "default"
                          ELSE Priority[CHOOSE i \in hits :
                                            \A j \in hits : i <= j]
            /\ last.text \in {NoneText, <<>>} => last.ret = "default"

\* a text with a calendar keyword before a summarize keyword is classified
\* summarize
C18_Witness ==
    /\ last.op = "detect_intent"
    /\ last.text = <<"f", "e", "t", "c", "h", " ",
                     "s", "u", "m", "m", "a", "r", "y">>
    /\ last.ret = "summarize"

\* C19 as stated: the example sentence is classified summarize.
C19_Original ==
    (last.op = "detect_intent" /\ last.text = MsgSummarizeTranscript) =>
        last.ret = "summarize"

\* C19: "please summarize the transcript and fetch my calendar" is
\* classified preprocess, its word "transcript" being a preprocess keyword;
\* the sentence without "the transcript" is classified summarize, the
\* summarize keyword winning over the calendar keywords.
C19_ExampleSentence ==
    /\ (last.op = "detect_intent" /\ last.text = MsgSummarizeTranscript) =>
          last.ret = "preprocess"
    /\ (last.op = "detect_intent" /\ last.text = MsgSummarizeCalendar) =>
          last.ret = "summarize"

\* the example sentence, which holds a summarize and a calendar keyword, has
\* been classified
C19_Witness ==
    /\ last.op = "detect_intent"
    /\ last.text = MsgSummarizeTranscript
    /\ In(KwSummar, lower(last.text))
    /\ \E k \in KwCalendar : In(k, lower(last.text))
    /\ last.ret = "preprocess"

\* C20: route_agents maps calendar to [calendar], preprocess to
\* [transcript], summarize to [summarization], risk to [risk], jira to
\* [jira], notify to [notification], default to [summarization] and every
\* other string to [summarization]; every tag that detect_intent returns is
\* one of the seven and is mapped to a non-empty sequence.
C20_RouteTable ==
    /\ last.op = "route_agents" =>
          LET mapping == [calendar |-> <<"calendar">>,
                          jira |-> <<"jira">>,
                          risk |-> <<"risk">>,
                          preprocess |-> <<"transcript">>,
                          summarize |-> <<"summarization">>,
                          notify |-> <<"notification">>,
                          default |-> <<"summarization">>]
          IN  /\ last.ret = IF last.intent \in DOMAIN mapping
                            THEN mapping[last.intent]
                            ELSE <<"summarization">>
              /\ last.ret # <<>>
    /\ last.op = "detect_intent" =>
          /\ last.ret \in {"preprocess", "summarize", "risk", "calendar",
                           "jira", "notify", "default"}
          /\ route_agents(last.ret) # <<>>

\* a string that is no key of the table, differing from one only in case,
\* is routed to summarization
C20_Witness ==
    /\ last.op = "route_agents"
    /\ last.intent = "Calendar"
    /\ last.ret = <<"summarization">>


\* C28 as stated: a coroutine is suspended in a tool's execute only while
\* its session is active.
C28_Original ==
    \A k \in CallSlots :
        calls[k] # Idle => Usable(sessions, calls[k].session_id)

\* C28: a tool's execute is started only in a session that is active at
\* that moment; end_session on that session while the execute is suspended
\* neither stops it nor changes what execute_tool returns, which is the
\* tool's result or the error made of its exception.
C28_ActiveWhenStarted ==
    [][\A k \in CallSlots :
          /\ (calls[k] = Idle /\ calls'[k] # Idle) =>
                Usable(sessions', calls'[k].session_id)
          /\ (calls[k] # Idle /\ last'.op = "end_session") =>
                calls'[k] = calls[k]
          /\ (calls[k] # Idle /\ calls[k].op = "execute_tool"
                /\ calls'[k] = Idle) =>
                /\ last'.op = "execute_tool"
                /\ last'.value \in {[status |-> "success"],
                                    ErrorResult("boom")}]_vars

\* execute_tool returns the tool's success in a session that was ended
\* while the tool ran
C28_Witness ==
    /\ last.op = "execute_tool"
    /\ last.value = [status |-> "success"]
    /\ last.session_id \in endCalled
    /\ ~Usable(sessions, last.session_id)

\* C29: a session that orchestrate created is active only while that call
\* is suspended in a tool; and, every execute that is started returning or
\* raising in the end, every suspended orchestrate call returns and every
\* active session of the orchestrator is ended.
C29_OrchestrateTerminates ==
    /\ [](\A j \in 1..Len(sessions) :
             (sessions[j].v.agent_id = OrchestratorId
                 /\ sessions[j].v.active) =>
                 \E k \in CallSlots :
                     /\ calls[k].op = "orchestrate"
                     /\ calls[k].created
                     /\ calls[k].session_id = sessions[j].k)
    /\ \A k \in CallSlots :
          (calls[k].op = "orchestrate") ~> (calls[k] = Idle)
    /\ \A id \in UUIDs :
          (Usable(sessions, id)
              /\ Get(sessions, id).agent_id = OrchestratorId)
          ~> ~Usable(sessions, id)

\* orchestrate has returned after the tool it waited for raised, and the
\* session it created is ended
C29_Witness ==
    /\ last.op = "orchestrate"
    /\ last.created # None
    /\ last.value.results
          = <<Entry("notification", ErrorResult("boom"))>>
    /\ Has(sessions, last.created)
    /\ ~Get(sessions, last.created).active


\* the tag of a dict part: the value under content_type if the key is
\* there, else the value under type
TagOf(p) ==
    IF Has(p.d, "content_type") THEN dict_get(p, "content_type")
    ELSE dict_get(p, "type")

\* C22: a constructed A2AMessage has one MessagePart per entry of the list
\* it was constructed from, in that order: a MessagePart is kept as it is,
\* a dict tagged "task" gives a TASK part with the dict's content, a string
\* gives a TEXT part with the string as content.
C22_OnePartPerEntry ==
    last.op = "A2AMessage" =>
        /\ Len(a2a.parts) = Len(last.parts)
        /\ \A i \in 1..Len(last.parts) :
              LET p == last.parts[i]
                  q == a2a.parts[i]
              IN  /\ q.py = "MessagePart"
                  /\ p.py = "MessagePart" => q = p
                  /\ p.py = "str" =>
                        q.content_type = PartType("TEXT") /\ q.content = p
                  /\ (p.py = "dict" /\ TagOf(p) = PyStr("task")) =>
                        /\ q.content_type = PartType("TASK")
                        /\ q.content = dict_get(p, "content")

\* the message constructed from the list of a dict tagged task, a string
\* and a JSON MessagePart
C22_Witness ==
    /\ last.op = "A2AMessage"
    /\ last.parts = ExampleParts
    /\ Len(a2a.parts) = 3
    /\ a2a.parts[1].content_type = PartType("TASK")
    /\ a2a.parts[2].content_type = PartType("TEXT")
    /\ a2a.parts[3].content_type = PartType("JSON")

\* C23: every part of a message is a MessagePart whose content type is a
\* member of PartType; in a message just constructed, a dict whose tag is
\* missing, None or the value of no member has given a TEXT part, and an
\* entry that is neither a dict nor a MessagePart a TEXT part holding its
\* str().
C23_PartsWellFormed ==
    /\ \A i \in 1..Len(a2a.parts) :
          /\ a2a.parts[i].py = "MessagePart"
          /\ a2a.parts[i].content_type
                \in {PartType(n) : n \in PartTypeNames}
    /\ last.op = "A2AMessage" =>
          \A i \in 1..Len(last.parts) :
              LET p == last.parts[i]
                  q == a2a.parts[i]
              IN  /\ (p.py = "dict" /\ TagOf(p).py # "PartType"
                        /\ TagOf(p) \notin
                              {PyStr(PartTypeValue(n)) : n \in PartTypeNames})
                        => q.content_type = PartType("TEXT")
                  /\ p.py \notin {"dict", "MessagePart"} =>
                        /\ q.content_type = PartType("TEXT")
                        /\ q.content = str_of(p)

\* a message constructed from a dict with an unknown tag and an int
C23_Witness ==
    /\ last.op = "A2AMessage"
    /\ last.parts = <<PyDict(<<Entry("type", PyStr("bogus"))>>), PyInt(7)>>
    /\ a2a.parts[1].content_type = PartType("TEXT")
    /\ a2a.parts[2].content = PyStr("7")

\* C24: a message constructed from the parts of a message has the same
\* parts: the same ids, content types and contents in the same order.
C24_NormalizeIdempotent ==
    [][(last'.op = "A2AMessage" /\ last'.parts = a2a.parts) =>
          a2a'.parts = a2a.parts]_vars

\* a message constructed from the parts of a message of three parts, the
\* last one added by add_json_part
C24_Witness ==
    /\ last.op = "A2AMessage"
    /\ last.parts = a2a.parts
    /\ Len(a2a.parts) = 3
    /\ a2a.parts[3].content_type = PartType("JSON")
    /\ a2a.parts[3].part_id = UuidStr(a2a.issued)

\* C25: no two parts of a message have the same part_id.
C25_UniquePartIds ==
    \A i, j \in 1..Len(a2a.parts) :
        i # j => a2a.parts[i].part_id # a2a.parts[j].part_id


\* C26: a POST /mcp/orchestrate that carries a session id creates no
\* session and starts tool executions in that session only; if the session
\* is unknown or ended it starts none and every entry of the results is the
\* session's error.
C26_CallerSessionReused ==
    (last.op = "call_orchestrate" /\ last.session_id # None) =>
        /\ last.created = None
        /\ \A i \in 1..Len(last.invoked) :
              last.invoked[i].session_id = last.session_id
        /\ ~last.usable =>
              /\ last.invoked = <<>>
              /\ \A i \in 1..Len(last.response.results) :
                    last.response.results[i].v.status = "error"

\* C27: POST /session/{session_id}/end answers {ended: b}, b being what the
\* host's end_session returned for the id.
C27_EndedIsHostResult ==
    last.op = "end_session_endpoint" =>
        last.response = [ended |-> last.ended]


\* C30: at most one session of the agent "streamlit-user" is active on the
\* shared host.
C30_OneActiveStreamlitSession ==
    Cardinality({j \in 1..Len(sessions) :
                    sessions[j].v.agent_id = StreamlitUser
                        /\ sessions[j].v.active}) <= 1

====
